---- MODULE Spec2Model ----
(***************************************************************************)
(* Model of the EHS conversational intake routes (routes/chatbot.py) and   *)
(* of the components they drive.  The Five-Whys manager, the dialog engine *)
(* (SmartEHSChatbot) and the intent classifier live in services modules    *)
(* that are not part of the available source; they are modelled from the   *)
(* specification and marked as such.                                       *)
(***************************************************************************)
EXTENDS Integers, Sequences, FiniteSets, TLC

\* ------------------------------------------------------------------ inputs
\* user_id of a request that names none (and of a request that fails to parse)
DefaultUser == "default_user"
Users == {"u1", DefaultUser}
\* the answer texts each user submits
AnswersOf(u) == IF u = "u1" THEN {"a", "b"} ELSE {"c"}
\* the outcomes of answer() on a session in state st that the specification
\* allows: a complete session's call is rejected (null) or ignored
RejChoices(st) == IF st = "complete" THEN BOOLEAN ELSE {FALSE}
Problems == {"forklift"}
\* form values as they arrive: absent or empty, blank, padded, plain
RawTexts == {"", "  ", " forklift ", "forklift"}

StripNothing(raw) == raw

\* str.strip() on the form values
Strip(raw) ==
    CASE raw = "  " -> ""
      [] raw = " forklift " -> "forklift"
      [] OTHER -> raw
\* incident ids that exist in data/incidents.json, and the ids a request may name
\* ("" is the absent form field, "i9" an id the store does not hold)
StoredIds == {"i1"}
RequestIds == {"", "i1", "i9"}

\* the chain length at which a Five-Whys session completes
MaxWhys == 5
\* the value of step in a fresh session
InitialStep == 0

\* how many failed creations of the chatbot instance are counted
MaxAttempts == 2

VARIABLES
    fw,         \* five_whys_manager: user id -> session, or NoSession
    store,      \* data/incidents.json: incident id -> record
    fwResp,     \* the response of the last five_whys request
    submitted,  \* per user, the answers accepted since the last start (history)
    chatbot,    \* _chatbot_instance: "None" or "Bot"
    attempted,  \* _chatbot_creation_attempted
    attempts,   \* creations of the chatbot tried so far, counted up to MaxAttempts
    dialog,     \* the chatbot's DialogSession per user id
    chatResp,   \* the last response of POST /chat or POST /chat/reset
    pc,         \* per request in flight, where its handler stands
    loc,        \* per request in flight, the handler's local variables
    sbert,      \* SBERT_AVAILABLE, fixed when services/embeddings.py is imported
    model,      \* the lru_cache of get_model: "empty" or the cached model
    loads,      \* constructions of SentenceTransformer tried so far (counted)
    embResp,    \* the last call on the embedding provider and its result
    capaResp,   \* the response of the last POST /capa/suggest
    ipc,        \* per caller of a lazy getter, where the getter stands
    inew,       \* per caller, the instance it has constructed (a local)
    got,        \* per caller, the instance its last call returned
    made        \* per singleton, the instances constructed so far

fwVars == <<fw, store, fwResp, submitted>>
chatVars == <<chatbot, attempted, attempts, dialog, chatResp>>
concVars == <<pc, loc>>
embVars == <<sbert, model, loads, embResp>>
initVars == <<ipc, inew, got, made>>
restVars == <<embVars, capaResp, initVars>>
vars == <<fw, store, fwResp, submitted, chatbot, attempted, attempts, dialog, chatResp,
          pc, loc, sbert, model, loads, embResp, capaResp, ipc, inew, got, made>>

NoSession == [problem |-> "", whys |-> <<>>, step |-> 0, status |-> "none"]
NoChain == <<"<absent>">>
\* call: the position of an answer call among the calls made since the user's
\* last start (1..MaxWhys), 0 for any other request (history, not program state)
\* raw: the problem field of a start request as it arrived; ignored: the
\* incident_id and complete fields of an answer request that was refused
NoResp == [op |-> "none", user |-> "", ok |-> FALSE, code |-> 0, complete |-> FALSE,
           whys |-> <<>>, progress |-> 0, prompt |-> 0, call |-> 0,
           step |-> 0, raw |-> "", ignored |-> <<"", FALSE>>]

\* ------------------------------------------------- Five-Whys manager (spec)
MgrStartKeepsSession(f, u, p) ==
    IF f[u].status = "none"
    THEN [f EXCEPT ![u] = [problem |-> p, whys |-> <<>>, step |-> 0, status |-> "active"]]
    ELSE f

MgrStart(f, u, p) ==
    [f EXCEPT ![u] = [problem |-> p, whys |-> <<>>, step |-> InitialStep,
                      status |-> "active"]]

MgrIsComplete(f, u) == f[u].status = "complete"

\* answer on an active session: append, count the step, complete at MaxWhys
MgrAppend(s, a) ==
    LET w == Append(s.whys, a)
    IN [s EXCEPT !.whys = w, !.step = s.step + 1,
                 !.status = IF Len(w) >= MaxWhys THEN "complete" ELSE "active"]

\* the manager after answer(u, a): nothing changes without a session or once the
\* session is complete
MgrAnswer(f, u, a) ==
    IF f[u].status = "active" THEN [f EXCEPT ![u] = MgrAppend(f[u], a)] ELSE f

MgrAnswerReturnsSession(f, u, rej) == f[u].status = "complete" => ~rej

\* what answer(u, a) returns: TRUE when it returns the session, FALSE for null.
\* On a complete session the call is either rejected (null) or ignored (the
\* unchanged session is returned); rej chooses.
MgrAnswerReturns(f, u, rej) ==
    CASE f[u].status = "none" -> FALSE
      [] f[u].status = "complete" -> ~rej
      [] OTHER -> TRUE

\* ---------------------------------------------------------- incident store
\* _load_incidents_for_chatbot: the mapping, or {} when the file cannot be read
LoadIncidents(st, readable) == IF readable THEN st ELSE [i \in {} |-> NoChain]

\* ------------------------------------------------------- five_whys routes
FwDoneForcedOnly(f, u, force) == force

\* done = five_whys_manager.is_complete(user_id) or force_complete
FwDone(f, u, force) == MgrIsComplete(f, u) \/ force

StepAsIs(sess) == sess.step

\* next_step = sess["step"] + 1
NextStep(sess) == sess.step + 1

FwChainPlusAnswer(sess, a) == Append(sess.whys, a)

\* chain = sess["whys"]
FwChain(sess, a) == sess.whys

\* history: the first MaxWhys answer calls a user makes after a start
Submit(u, a) ==
    IF fw[u].status # "none" /\ Len(submitted[u]) < MaxWhys
    THEN [submitted EXCEPT ![u] = Append(@, a)] ELSE submitted

CallNo(u) ==
    IF fw[u].status # "none" /\ Len(submitted[u]) < MaxWhys
    THEN Len(submitted[u]) + 1 ELSE 0

\* the store after the attach step of five_whys_answer
FwAttach(st, inc, chain, readable) ==
    LET items == LoadIncidents(st, readable)
    IN IF inc # "" /\ inc \in DOMAIN items
       THEN [i \in DOMAIN items |-> IF i = inc THEN chain ELSE items[i]]
       ELSE st

FwStartOk(u, raw) ==
    /\ Strip(raw) # ""
    /\ fw' = MgrStart(fw, u, Strip(raw))
    /\ submitted' = [submitted EXCEPT ![u] = <<>>]
    /\ fwResp' = [NoResp EXCEPT !.op = "start", !.user = u, !.ok = TRUE, !.code = 200,
                                !.step = 1, !.prompt = 1, !.raw = raw]
    /\ UNCHANGED <<store, chatVars, concVars, restVars>>

FwStartEmpty(u, raw) ==
    /\ Strip(raw) = ""
    /\ fwResp' = [NoResp EXCEPT !.op = "start", !.user = u, !.code = 400, !.raw = raw]
    /\ UNCHANGED <<fw, store, submitted, chatVars, concVars, restVars>>

FwAnswerNoSession(u, a, inc, force, rej) ==
    /\ ~MgrAnswerReturns(fw, u, rej)
    /\ fwResp' = [NoResp EXCEPT !.op = "answer", !.user = u, !.code = 400,
                                !.call = CallNo(u), !.ignored = <<inc, force>>]
    /\ submitted' = Submit(u, a)
    /\ UNCHANGED <<fw, store, chatVars, concVars, restVars>>

FwAnswerDone(u, a, inc, force, rej, readable) ==
    /\ MgrAnswerReturns(fw, u, rej)
    /\ fw' = MgrAnswer(fw, u, a)
    /\ FwDone(fw', u, force)
    /\ submitted' = Submit(u, a)
    /\ store' = FwAttach(store, inc, FwChain(fw'[u], a), readable)
    /\ fwResp' = [NoResp EXCEPT !.op = "answer", !.user = u, !.ok = TRUE, !.code = 200,
                                !.complete = TRUE, !.whys = FwChain(fw'[u], a),
                                !.call = CallNo(u)]
    /\ UNCHANGED <<chatVars, concVars, restVars>>

FwAnswerNext(u, a, force, rej) ==
    /\ MgrAnswerReturns(fw, u, rej)
    /\ fw' = MgrAnswer(fw, u, a)
    /\ ~FwDone(fw', u, force)
    /\ submitted' = Submit(u, a)
    /\ fwResp' = [NoResp EXCEPT !.op = "answer", !.user = u, !.ok = TRUE, !.code = 200,
                                !.prompt = NextStep(fw'[u]),
                                !.progress = Len(fw'[u].whys), !.call = CallNo(u)]
    /\ UNCHANGED <<store, chatVars, concVars, restVars>>

\* -------------------------------------------------------------------- chat
\* A message is the sequence of its words.  No word of the vocabulary properly
\* contains a keyword, so "keyword in message_lower" is decided word by word.
Messages ==
    { <<>>, <<"hello">>, <<"FIRE", "injury">>, <<"chemical", "spill">>,
      <<"Environmental">>, <<"help", "sds">> }

\* content types of an attached file ("" is no file)
FileTypes == {"", "image/png"}

\* str.lower() on the vocabulary
Lower(w) ==
    CASE w = "FIRE" -> "fire"
      [] w = "Environmental" -> "environmental"
      [] OTHER -> w

LowerMsg(m) == [i \in 1..Len(m) |-> Lower(m[i])]

\* any(word in message_lower for word in kws)
AnyIn(kws, ml) == \E i \in 1..Len(ml) : ml[i] \in kws

IncidentWords == {"incident", "accident", "injury", "hurt", "damage", "spill", "report"}
SafetyWords == {"safety", "concern", "unsafe", "hazard", "dangerous"}
SdsWords == {"sds", "chemical", "safety data sheet", "msds", "find"}
EmergencyWords == {"emergency", "911", "fire", "urgent", "help"}

\* the choices the incident-type prompt offers
IncidentTypes == {"injury", "vehicle", "near miss", "property", "environmental",
                  "security", "depot", "other"}

\* ------------------------------------------------------------- responses
\* A response dictionary: the keys it holds and the values of the keys the routes
\* read; actions is the list of the actions' labels.
Dict(keys, message, type, actions) ==
    [kind |-> "dict", keys |-> keys, message |-> message, type |-> type,
     actions |-> actions]

\* a value returned by process_message that is no dictionary; message is its str()
NonDict(text) ==
    [kind |-> "other", keys |-> {}, message |-> text, type |-> "", actions |-> <<>>]

DefaultMessage == "I processed your request, but couldn't generate a proper response."
DefaultActions == <<"Main Menu", "Dashboard">>
TerminalTypes == {"incident_completed", "emergency"}

\* if not isinstance(response, dict): wrap its str()
AsDict(response) ==
    IF response.kind # "dict"
    THEN Dict({"message", "type"}, response.message, "text_response", <<>>)
    ELSE response

EnsureMessageIfMissing(r) ==
    IF "message" \notin r.keys
    THEN [r EXCEPT !.keys = @ \cup {"message"}, !.message = DefaultMessage]
    ELSE r

\* if "message" not in response or not response["message"]
EnsureMessage(r) ==
    IF "message" \notin r.keys \/ r.message = ""
    THEN [r EXCEPT !.keys = @ \cup {"message"}, !.message = DefaultMessage]
    ELSE r

\* if "type" not in response
EnsureType(r) ==
    IF "type" \notin r.keys
    THEN [r EXCEPT !.keys = @ \cup {"type"}, !.type = "general_response"]
    ELSE r

\* if "actions" not in response and its type is not terminal: the default set
EnsureActions(r) ==
    IF "actions" \notin r.keys /\ r.type \notin TerminalTypes
    THEN [r EXCEPT !.keys = @ \cup {"actions"}, !.actions = DefaultActions]
    ELSE r

\* quick replies of a completed incident, and the context of an attached file
EnsureExtras(r, uploaded) ==
    [r EXCEPT !.keys = @ \cup (IF r.type = "incident_completed" THEN {"quick_replies"}
                               ELSE {})
                         \cup (IF uploaded # "" THEN {"file_context"} ELSE {})]

\* validate_and_enhance_response
ValidateAndEnhance(response, uploaded) ==
    EnsureExtras(EnsureActions(EnsureType(EnsureMessage(AsDict(response)))), uploaded)

\* get_enhanced_fallback_response: the attached file first, then the keyword
\* lists in the order the code tests them
Fallback(message, uploaded) ==
    LET ml == LowerMsg(message)
        K == {"message", "type", "actions"}
    IN IF uploaded = "image/png"
       THEN Dict(K \cup {"quick_replies"}, "Image received", "file_upload_guidance",
                 <<"Report Incident with Photo", "Safety Concern with Photo",
                   "Document Safety Issue">>)
       ELSE IF uploaded = "application/pdf"
       THEN Dict(K, "PDF received", "file_upload_guidance",
                 <<"Add to SDS Library", "Upload to System">>)
       ELSE IF AnyIn(IncidentWords, ml)
       THEN Dict(K \cup {"quick_replies"}, "I'll help you report this incident",
                 "incident_guidance",
                 <<"Injury", "Vehicle", "Environmental", "Property", "Near Miss", "Other">>)
       ELSE IF AnyIn(SafetyWords, ml)
       THEN Dict(K \cup {"quick_replies"}, "Thank you for speaking up about safety",
                 "safety_guidance",
                 <<"Submit Safety Concern", "Anonymous Report", "This is urgent">>)
       ELSE IF AnyIn(SdsWords, ml)
       THEN Dict(K \cup {"quick_replies"}, "I'll help you find Safety Data Sheets",
                 "sds_guidance", <<"Search SDS Library", "Upload New SDS">>)
       ELSE IF AnyIn(EmergencyWords, ml)
       THEN Dict(K, "EMERGENCY SUPPORT", "emergency_guidance",
                 <<"Call Emergency Services", "Report Emergency Incident">>)
       ELSE Dict(K \cup {"quick_replies"}, "I'm your Smart EHS Assistant", "general_help",
                 <<"Report Incident", "Safety Concern", "Find SDS", "Dashboard">>)

\* the response of the fast path for an incident start
FastPathResponse ==
    Dict({"ok", "message", "type", "intent", "confidence"},
         "Okay, let's start your incident report. What kind of incident is it?",
         "incident_start", <<>>)

\* parse_request_data_comprehensive: the message of the request; a file sent
\* without text becomes the text "I've uploaded a file: <name>"
ParsedMessage(m, uploaded) ==
    IF uploaded # "" /\ m = <<>> THEN <<"uploaded", "file">> ELSE m

\* ------------------------------------------- intent classifier (spec 4.2)
\* classify(text): the lexical rule pass with the priority emergency >
\* incident > safety concern > sds lookup; "none" when no rule fires
Classify(message) ==
    LET ml == LowerMsg(message)
    IN CASE AnyIn(EmergencyWords, ml) -> "emergency"
         [] AnyIn(IncidentWords, ml) -> "incident_reporting"
         [] AnyIn(SafetyWords, ml) -> "safety_concern"
         [] AnyIn(SdsWords, ml) -> "sds_lookup"
         [] OTHER -> "none"

\* --------------------------------------------- dialog manager (spec 4.3)
NoFilled == [s \in {} |-> <<>>]
NoDialog == [status |-> "none", intent |-> "", pending |-> "", filled |-> NoFilled]

\* the required slots of an incident report, in the order they are asked
RequiredSlots == <<"incident_type", "description">>

NextSlot(filled) ==
    LET missing == {i \in 1..Len(RequiredSlots) : RequiredSlots[i] \notin DOMAIN filled}
    IN IF missing = {} THEN ""
       ELSE RequiredSlots[CHOOSE i \in missing : \A j \in missing : i <= j]

\* an enumerated choice matches one of its values case-insensitively; free text
\* must be non-empty
ValidAnswer(slot, message) ==
    IF slot = "incident_type"
    THEN Len(message) = 1 /\ Lower(message[1]) \in IncidentTypes
    ELSE message # <<>>

Fill(filled, slot, message) ==
    [s \in DOMAIN filled \cup {slot} |-> IF s = slot THEN message ELSE filled[s]]

\* a response the engine builds; it may or may not supply actions
EngineDict(type, acts) ==
    Dict(IF acts THEN {"message", "type", "actions"} ELSE {"message", "type"},
         "engine text", type, IF acts THEN <<"Continue">> ELSE <<>>)

\* process_message on the session d of the user: the session afterwards
DialogAfter(d, message, uploaded) ==
    IF d.status = "collecting"
    THEN IF ValidAnswer(d.pending, message)
         THEN LET f == Fill(d.filled, d.pending, message)
              IN IF NextSlot(f) = ""
                 THEN [d EXCEPT !.status = "completed", !.pending = "", !.filled = f]
                 ELSE [d EXCEPT !.pending = NextSlot(f), !.filled = f]
         ELSE d
    ELSE IF Classify(message) = "incident_reporting"
         THEN [status |-> "collecting", intent |-> "incident_reporting",
               pending |-> NextSlot(NoFilled), filled |-> NoFilled]
         ELSE d

\* process_message on the session d of the user: the type of the response
DialogResponseType(d, message, uploaded) ==
    IF d.status = "collecting"
    THEN IF ValidAnswer(d.pending, message)
         THEN IF NextSlot(Fill(d.filled, d.pending, message)) = ""
              THEN "incident_completed" ELSE "prompt"
         ELSE "prompt"
    ELSE CASE Classify(message) = "incident_reporting" -> "incident_start"
           [] Classify(message) = "emergency" -> "emergency"
           [] Classify(message) = "safety_concern" -> "safety_guidance"
           [] Classify(message) = "sds_lookup" -> "sds_guidance"
           [] uploaded # "" -> "file_upload_guidance"
           [] OTHER -> "general_help"

\* chatbot._reset_state(): the call names no user
ResetState(dlg) == [u \in Users |-> NoDialog]

\* what process_message may hand back when it does not keep its contract
MalformedResponses ==
    { NonDict(""), NonDict("raw text"),
      Dict({}, "", "", <<>>), Dict({"type"}, "", "emergency", <<>>),
      Dict({"message", "type"}, "", "", <<>>),
      Dict({"message"}, "engine text", "", <<>>) }

\* ------------------------------------------------------------ chat routes
\* the response of the last request with what the request was: its route, its
\* user and the path the handler took; for a response of the fallback router
\* also the message and the file of the request
NoChatResp ==
    [route |-> "none", user |-> "", path |-> "", msg |-> <<>>, file |-> "",
     r |-> Dict({}, "", "", <<>>)]

ChatResp(u, path, m, uploaded, r) ==
    IF path \in {"no_bot", "raised"}
    THEN [route |-> "chat", user |-> u, path |-> path, msg |-> m, file |-> uploaded,
          r |-> r]
    ELSE [route |-> "chat", user |-> u, path |-> path, msg |-> <<>>, file |-> "",
          r |-> r]

\* get_chatbot: an instance that exists is returned; without one a creation is
\* tried, and created tells whether the factory or the class succeeded
GetChatbot(bot, created) == IF bot = "None" /\ created THEN "Bot" ELSE bot

CountAttempt(bot, n) == IF bot = "None" /\ n < MaxAttempts THEN n + 1 ELSE n

GetChatbotStep(created) ==
    /\ chatbot' = GetChatbot(chatbot, created)
    /\ attempted' = (attempted \/ chatbot' # chatbot)
    /\ attempts' = CountAttempt(chatbot, attempts)

\* POST /chat answered without a chatbot instance
ChatNoBot(u, m, uploaded) ==
    /\ GetChatbotStep(FALSE)
    /\ chatbot' = "None"
    /\ chatResp' = ChatResp(u, "no_bot", ParsedMessage(m, uploaded), uploaded,
                            Fallback(ParsedMessage(m, uploaded), uploaded))
    /\ UNCHANGED <<dialog, fwVars, concVars, restVars>>

\* POST /chat answered by the fast path: the quick classifier says incident
ChatFastPath(u, m, uploaded) ==
    /\ GetChatbotStep(TRUE)
    /\ Classify(ParsedMessage(m, uploaded)) = "incident_reporting"
    /\ chatResp' = ChatResp(u, "fast", ParsedMessage(m, uploaded), uploaded,
                            FastPathResponse)
    /\ UNCHANGED <<dialog, fwVars, concVars, restVars>>

\* the quick classifier's verdict; when classify raises the intent is None
QuickIntent(message, qraises) == IF qraises THEN "none" ELSE Classify(message)

\* whether classify raises decides the path only for an incident message
QuickRaises(m, uploaded) ==
    IF Classify(ParsedMessage(m, uploaded)) = "incident_reporting" THEN {TRUE} ELSE {FALSE}

\* POST /chat answered by the chatbot
ChatEngine(u, m, uploaded, qraises, acts) ==
    /\ GetChatbotStep(TRUE)
    /\ QuickIntent(ParsedMessage(m, uploaded), qraises) # "incident_reporting"
    /\ dialog' = [dialog EXCEPT ![u] = DialogAfter(@, ParsedMessage(m, uploaded), uploaded)]
    /\ chatResp' =
         ChatResp(u, "engine", ParsedMessage(m, uploaded), uploaded,
                  ValidateAndEnhance(
                      EngineDict(DialogResponseType(dialog[u], ParsedMessage(m, uploaded),
                                                    uploaded), acts),
                      uploaded))
    /\ UNCHANGED <<fwVars, concVars, restVars>>

\* POST /chat where process_message breaks its contract: the session is left as
\* it was and the returned value goes through the validator
ChatMalformed(u, m, uploaded, qraises, bad) ==
    /\ GetChatbotStep(TRUE)
    /\ QuickIntent(ParsedMessage(m, uploaded), qraises) # "incident_reporting"
    /\ chatResp' = ChatResp(u, "malformed", ParsedMessage(m, uploaded), uploaded,
                            ValidateAndEnhance(bad, uploaded))
    /\ UNCHANGED <<dialog, fwVars, concVars, restVars>>

\* POST /chat where process_message raises: the fallback router answers
ChatEngineRaises(u, m, uploaded, qraises) ==
    /\ GetChatbotStep(TRUE)
    /\ QuickIntent(ParsedMessage(m, uploaded), qraises) # "incident_reporting"
    /\ chatResp' = ChatResp(u, "raised", ParsedMessage(m, uploaded), uploaded,
                            Fallback(ParsedMessage(m, uploaded), uploaded))
    /\ UNCHANGED <<dialog, fwVars, concVars, restVars>>

\* POST /chat/reset: no user id is read from the request
ResetChat(u, created) ==
    /\ GetChatbotStep(created)
    /\ dialog' = IF chatbot' = "Bot" THEN ResetState(dialog) ELSE dialog
    /\ chatResp' = [NoChatResp EXCEPT
                      !.route = "reset", !.user = u,
                      !.r = Dict({"status", "message"},
                                 IF chatbot' = "Bot" THEN "Chat session reset successfully"
                                 ELSE "Chatbot not available for reset", "", <<>>)]
    /\ UNCHANGED <<fwVars, concVars, restVars>>

\* ------------------------------------------- five_whys_answer, step by step
\* Requests served at the same time, each by its own worker.  The handler takes
\* no lock: between its calls on the manager and on the incident file another
\* request may run.  Every request submits the same answer text.
Requests == {"r1", "r2"}
AnswerOf(r) == "a"

NoLocals == [user |-> "", inc |-> "", force |-> FALSE, sess |-> NoSession,
             items |-> [i \in {} |-> NoChain]]

\* five_whys_start, one call on the manager
ConcStart(u, p) ==
    /\ fw' = MgrStart(fw, u, p)
    /\ fwResp' = [NoResp EXCEPT !.op = "start", !.user = u, !.ok = TRUE, !.code = 200,
                                !.prompt = 1]
    /\ UNCHANGED <<store, submitted, chatVars, concVars, restVars>>

\* sess = five_whys_manager.answer(user_id, answer), refused: the error response
ConcAnswerRefused(r, u, rej) ==
    /\ pc[r] = "idle"
    /\ ~MgrAnswerReturns(fw, u, rej)
    /\ fwResp' = [NoResp EXCEPT !.op = "answer", !.user = u, !.code = 400]
    /\ UNCHANGED <<fw, store, submitted, chatVars, concVars, restVars>>

\* sess = five_whys_manager.answer(user_id, answer)
ConcAnswer(r, u, inc, force, rej) ==
    /\ pc[r] = "idle"
    /\ MgrAnswerReturns(fw, u, rej)
    /\ fw' = MgrAnswer(fw, u, AnswerOf(r))
    /\ pc' = [pc EXCEPT ![r] = "answered"]
    /\ loc' = [loc EXCEPT ![r] = [NoLocals EXCEPT !.user = u, !.inc = inc,
                                                  !.force = force, !.sess = fw'[u]]]
    /\ UNCHANGED <<store, fwResp, submitted, chatVars, restVars>>

\* done = is_complete(user_id) or force_complete, not done: the next prompt
ConcNotDone(r) ==
    /\ pc[r] = "answered"
    /\ ~FwDone(fw, loc[r].user, loc[r].force)
    /\ fwResp' = [NoResp EXCEPT !.op = "answer", !.user = loc[r].user, !.ok = TRUE,
                                !.code = 200, !.prompt = NextStep(loc[r].sess),
                                !.progress = Len(loc[r].sess.whys)]
    /\ pc' = [pc EXCEPT ![r] = "idle"]
    /\ loc' = [loc EXCEPT ![r] = NoLocals]
    /\ UNCHANGED <<fw, store, submitted, chatVars, restVars>>

\* done, and no incident to attach to: the completion response
ConcDone(r) ==
    /\ pc[r] = "answered"
    /\ FwDone(fw, loc[r].user, loc[r].force)
    /\ loc[r].inc = ""
    /\ fwResp' = [NoResp EXCEPT !.op = "answer", !.user = loc[r].user, !.ok = TRUE,
                                !.code = 200, !.complete = TRUE,
                                !.whys = FwChain(loc[r].sess, "")]
    /\ pc' = [pc EXCEPT ![r] = "idle"]
    /\ loc' = [loc EXCEPT ![r] = NoLocals]
    /\ UNCHANGED <<fw, store, submitted, chatVars, restVars>>

\* done: items = _load_incidents_for_chatbot()
ConcLoad(r, readable) ==
    /\ pc[r] = "answered"
    /\ FwDone(fw, loc[r].user, loc[r].force)
    /\ loc[r].inc # ""
    /\ pc' = [pc EXCEPT ![r] = "loaded"]
    /\ loc' = [loc EXCEPT ![r].items = LoadIncidents(store, readable)]
    /\ UNCHANGED <<fw, store, fwResp, submitted, chatVars, restVars>>

\* rec = items.get(incident_id); the write of the whole file when rec exists;
\* the completion response
ConcSave(r) ==
    /\ pc[r] = "loaded"
    /\ store' = IF loc[r].inc \in DOMAIN loc[r].items
                THEN [i \in DOMAIN loc[r].items |->
                         IF i = loc[r].inc THEN FwChain(loc[r].sess, "")
                         ELSE loc[r].items[i]]
                ELSE store
    /\ fwResp' = [NoResp EXCEPT !.op = "answer", !.user = loc[r].user, !.ok = TRUE,
                                !.code = 200, !.complete = TRUE,
                                !.whys = FwChain(loc[r].sess, "")]
    /\ pc' = [pc EXCEPT ![r] = "idle"]
    /\ loc' = [loc EXCEPT ![r] = NoLocals]
    /\ UNCHANGED <<fw, submitted, chatVars, restVars>>

\* ------------------------------------------------- services/embeddings.py
\* the dimension of every vector of the provider
Dim == 384
\* the texts a caller embeds, and the longest list of them
Texts == {"x", "y"}
MaxTexts == 2
TextLists == UNION {[1..n -> Texts] : n \in 0..MaxTexts}
\* how many constructions of the model are counted
MaxLoads == 2

OnesVector(n) == [i \in 1..n |-> 1]

\* np.zeros(n)
Zeros(n) == [i \in 1..n |-> 0]

\* np.zeros((k, n))
ZerosMatrix(k, n) == [r \in 1..k |-> Zeros(n)]

\* model.encode(texts, normalize_embeddings=True): one unit vector per text
Axis(t) == IF t = "x" THEN 1 ELSE 2
Encode(texts) ==
    [k \in 1..Len(texts) |-> [i \in 1..Dim |-> IF i = Axis(texts[k]) THEN 1 ELSE 0]]

\* get_model under lru_cache(maxsize=1).  It raises when the backend is not
\* available and when the construction of the model fails; a call that raises
\* leaves nothing in the cache.
GetModelRaises(avail, cache, loadOk) == ~avail \/ (cache = "empty" /\ ~loadOk)

GetModelCache(avail, cache, loadOk) ==
    IF avail /\ cache = "empty" /\ loadOk THEN "Model" ELSE cache

\* SentenceTransformer(...) is constructed whenever the cache holds no model
CountLoad(avail, cache, n) ==
    IF avail /\ cache = "empty" /\ n < MaxLoads THEN n + 1 ELSE n

\* which call of the try block fails, if any
Failure(avail, cache, loadOk, encodeOk) ==
    CASE GetModelRaises(avail, cache, loadOk) -> "load"
      [] ~encodeOk -> "encode"
      [] OTHER -> "none"

\* a value handed back to the caller, or an exception that reaches the caller
Returned(shape, rows) == [raised |-> FALSE, shape |-> shape, rows |-> rows]
Reraise(shape, k) == [raised |-> TRUE, shape |-> <<>>, rows |-> <<>>]

\* except Exception: the zero-vector result of the call's shape
ExceptZeros(shape, k) == Returned(shape, ZerosMatrix(k, Dim))

\* embed_texts(texts)
EmbedTextsResult(avail, texts, cache, loadOk, encodeOk) ==
    CASE Len(texts) = 0 -> Returned(<<0, Dim>>, ZerosMatrix(0, Dim))
      [] ~avail -> Returned(<<Len(texts), Dim>>, ZerosMatrix(Len(texts), Dim))
      [] Failure(avail, cache, loadOk, encodeOk) # "none" ->
             ExceptZeros(<<Len(texts), Dim>>, Len(texts))
      [] OTHER -> Returned(<<Len(texts), Dim>>, Encode(texts))

\* embed_query(q): one vector, held as the only row
EmbedQueryResult(avail, q, cache, loadOk, encodeOk) ==
    CASE ~avail -> Returned(<<Dim>>, <<Zeros(Dim)>>)
      [] Failure(avail, cache, loadOk, encodeOk) # "none" -> ExceptZeros(<<Dim>>, 1)
      [] OTHER -> Returned(<<Dim>>, <<Encode(<<q>>)[1]>>)

\* np.dot(a, b) over the components lo..hi, summed by halves
RECURSIVE Dot(_, _, _, _)
Dot(a, b, lo, hi) ==
    CASE lo > hi -> 0
      [] lo = hi -> a[lo] * b[lo]
      [] OTHER -> Dot(a, b, lo, (lo + hi) \div 2) + Dot(a, b, (lo + hi) \div 2 + 1, hi)

\* cosine_sim(a, b) on two vectors of the provider
CosineSimResult(a, b) == Dot(a, b, 1, Dim)

\* failed: which backend call failed in the try block ("skipped" when the try
\* block was not entered); pair: the rows cosine_sim was applied to
NoEmbResp ==
    [op |-> "none", texts |-> <<>>, failed |-> "skipped", raised |-> FALSE,
     shape |-> <<>>, rows |-> <<>>, pair |-> <<>>, sim |-> 0]

EmbResp(op, texts, failed, res) ==
    [NoEmbResp EXCEPT !.op = op, !.texts = texts, !.failed = failed,
                      !.raised = res.raised, !.shape = res.shape, !.rows = res.rows]

\* whether the call enters the try block
EntersTry(avail, texts) == avail /\ Len(texts) > 0

EmbedTexts(texts, loadOk, encodeOk) ==
    /\ embResp' = EmbResp("embed_texts", texts,
                          IF EntersTry(sbert, texts)
                          THEN Failure(sbert, model, loadOk, encodeOk) ELSE "skipped",
                          EmbedTextsResult(sbert, texts, model, loadOk, encodeOk))
    /\ model' = IF EntersTry(sbert, texts) THEN GetModelCache(sbert, model, loadOk)
                ELSE model
    /\ loads' = IF EntersTry(sbert, texts) THEN CountLoad(sbert, model, loads) ELSE loads
    /\ UNCHANGED <<sbert, fwVars, chatVars, concVars, capaResp, initVars>>

EmbedQuery(q, loadOk, encodeOk) ==
    /\ embResp' = EmbResp("embed_query", <<q>>,
                          IF sbert THEN Failure(sbert, model, loadOk, encodeOk)
                          ELSE "skipped",
                          EmbedQueryResult(sbert, q, model, loadOk, encodeOk))
    /\ model' = IF sbert THEN GetModelCache(sbert, model, loadOk) ELSE model
    /\ loads' = IF sbert THEN CountLoad(sbert, model, loads) ELSE loads
    /\ UNCHANGED <<sbert, fwVars, chatVars, concVars, capaResp, initVars>>

\* cosine_sim on rows i and j of the vectors the last call returned
CosineSim(i, j) ==
    /\ ~embResp.raised
    /\ i \in 1..Len(embResp.rows) /\ j \in 1..Len(embResp.rows)
    /\ embResp' = [embResp EXCEPT !.op = "cosine_sim", !.pair = <<i, j>>,
                                  !.sim = CosineSimResult(embResp.rows[i],
                                                          embResp.rows[j])]
    /\ UNCHANGED <<sbert, model, loads, fwVars, chatVars, concVars, capaResp, initVars>>

\* ---------------------------------------------------------- capa_suggest
\* what suggest_corrective_actions may rank: nothing, or one suggestion
CapaEngineResults == {<<>>, <<"lockout">>}

NoCapaResp ==
    [raw |-> "-", ok |-> FALSE, code |-> 0, keys |-> {}, suggestions |-> <<>>,
     scored |-> FALSE]

\* POST /capa/suggest; scored tells whether suggest_corrective_actions was called
CapaSuggest(raw, res) ==
    /\ capaResp' =
         IF Strip(raw) = ""
         THEN [NoCapaResp EXCEPT !.raw = raw, !.code = 400, !.keys = {"ok", "error"}]
         ELSE [NoCapaResp EXCEPT !.raw = raw, !.ok = TRUE, !.code = 200,
                                 !.keys = {"ok", "suggestions"}, !.suggestions = res,
                                 !.scored = TRUE]
    /\ UNCHANGED <<fwVars, chatVars, concVars, embVars, initVars>>

\* ------------------------------------------ the lazy getters, step by step
\* Callers served at the same time.  get_chatbot takes no lock; lru_cache locks
\* its lookup and its store, not the call of get_model between them.
Callers == {"t1", "t2"}
\* how many instances of one singleton may be constructed
MaxInstances == 2

\* the n-th instance constructed of a singleton
InstanceName(kind, n) == IF n = 1 THEN kind ELSE kind \o ToString(n)

NoneGot == [chatbot |-> "-", model |-> "-"]

\* get_chatbot: if _chatbot_instance is None
GcEnter(t) ==
    /\ ipc[t] = "idle"
    /\ ipc' = [ipc EXCEPT ![t] = IF chatbot = "None" THEN "gc_create" ELSE "gc_return"]
    /\ UNCHANGED <<inew, got, made, fwVars, chatVars, concVars, embVars, capaResp>>

\* create_chatbot(), or SmartEHSChatbot() when the factory fails; created is
\* FALSE when both raise
GcConstruct(t, created) ==
    /\ ipc[t] = "gc_create"
    /\ created => made.chatbot < MaxInstances
    /\ attempts' = CountAttempt("None", attempts)
    /\ inew' = [inew EXCEPT ![t] = IF created
                                   THEN InstanceName("Bot", made.chatbot + 1)
                                   ELSE "None"]
    /\ made' = IF created THEN [made EXCEPT !.chatbot = @ + 1] ELSE made
    /\ ipc' = [ipc EXCEPT ![t] = "gc_assign"]
    /\ UNCHANGED <<got, chatbot, attempted, dialog, chatResp, fwVars, concVars,
                   embVars, capaResp>>

\* _chatbot_instance = <the new instance>, or = None after both creations failed
GcAssign(t) ==
    /\ ipc[t] = "gc_assign"
    /\ chatbot' = inew[t]
    /\ attempted' = (attempted \/ inew[t] # "None")
    /\ ipc' = [ipc EXCEPT ![t] = "gc_return"]
    /\ UNCHANGED <<inew, got, made, attempts, dialog, chatResp, fwVars, concVars,
                   embVars, capaResp>>

\* return _chatbot_instance
GcReturn(t) ==
    /\ ipc[t] = "gc_return"
    /\ got' = [got EXCEPT ![t].chatbot = chatbot]
    /\ ipc' = [ipc EXCEPT ![t] = "idle"]
    /\ inew' = [inew EXCEPT ![t] = "None"]
    /\ UNCHANGED <<made, fwVars, chatVars, concVars, embVars, capaResp>>

\* get_model(), the lookup of lru_cache: a hit returns the cached model
GmHit(t) ==
    /\ ipc[t] = "idle"
    /\ sbert /\ model # "empty"
    /\ got' = [got EXCEPT ![t].model = model]
    /\ UNCHANGED <<ipc, inew, made, fwVars, chatVars, concVars, embVars, capaResp>>

\* the lookup misses: get_model will be called
GmMiss(t) ==
    /\ ipc[t] = "idle"
    /\ sbert /\ model = "empty"
    /\ ipc' = [ipc EXCEPT ![t] = "gm_load"]
    /\ UNCHANGED <<inew, got, made, fwVars, chatVars, concVars, embVars, capaResp>>

\* SentenceTransformer(...) raises: the exception leaves get_model
GmLoadFails(t) ==
    /\ ipc[t] = "gm_load"
    /\ loads' = CountLoad(sbert, "empty", loads)
    /\ got' = [got EXCEPT ![t].model = "raise"]
    /\ ipc' = [ipc EXCEPT ![t] = "idle"]
    /\ UNCHANGED <<inew, made, sbert, model, embResp, fwVars, chatVars, concVars,
                   capaResp>>

\* SentenceTransformer(...) returns a model
GmLoad(t) ==
    /\ ipc[t] = "gm_load"
    /\ made.model < MaxInstances
    /\ loads' = CountLoad(sbert, "empty", loads)
    /\ inew' = [inew EXCEPT ![t] = InstanceName("Model", made.model + 1)]
    /\ made' = [made EXCEPT !.model = @ + 1]
    /\ ipc' = [ipc EXCEPT ![t] = "gm_store"]
    /\ UNCHANGED <<got, sbert, model, embResp, fwVars, chatVars, concVars, capaResp>>

\* lru_cache stores the result unless the key is cached by now, and returns the
\* result of this call
GmStore(t) ==
    /\ ipc[t] = "gm_store"
    /\ model' = IF model = "empty" THEN inew[t] ELSE model
    /\ got' = [got EXCEPT ![t].model = inew[t]]
    /\ ipc' = [ipc EXCEPT ![t] = "idle"]
    /\ inew' = [inew EXCEPT ![t] = "None"]
    /\ UNCHANGED <<made, sbert, loads, embResp, fwVars, chatVars, concVars, capaResp>>

\* ---------------------------------------------------------- specifications
CoreInit ==
    /\ fw = [u \in Users |-> NoSession]
    /\ store = [i \in StoredIds |-> NoChain]
    /\ fwResp = NoResp
    /\ submitted = [u \in Users |-> <<>>]
    /\ chatbot = "None"
    /\ attempted = FALSE
    /\ attempts = 0
    /\ dialog = [u \in Users |-> NoDialog]
    /\ chatResp = NoChatResp
    /\ pc = [r \in Requests |-> "idle"]
    /\ loc = [r \in Requests |-> NoLocals]
    /\ capaResp = NoCapaResp
    /\ ipc = [t \in Callers |-> "idle"]
    /\ inew = [t \in Callers |-> "None"]
    /\ got = [t \in Callers |-> NoneGot]
    /\ made = [chatbot |-> 0, model |-> 0]

\* the embedding provider after import: ENABLE_SBERT decides SBERT_AVAILABLE
EmbStart(avail) ==
    /\ sbert = avail
    /\ model = "empty"
    /\ loads = 0
    /\ embResp = NoEmbResp

\* ENABLE_SBERT defaults to false
Init == CoreInit /\ EmbStart(FALSE)

\* a process started with ENABLE_SBERT unset, or set with the package installed
EmbInit == CoreInit /\ \E avail \in BOOLEAN : EmbStart(avail)

\* a process started with the embedding backend available
LazyInit == CoreInit /\ EmbStart(TRUE)

FwNext ==
    \/ \E u \in Users, p \in Problems : FwStartOk(u, p)
    \/ \E u \in Users : FwStartEmpty(u, "")
    \/ \E u \in Users : \E a \in AnswersOf(u), rej \in RejChoices(fw[u].status) :
          FwAnswerNoSession(u, a, "", FALSE, rej)
    \/ \E u \in Users, inc \in RequestIds, force \in BOOLEAN :
          \E a \in AnswersOf(u), rej \in RejChoices(fw[u].status),
             readable \in (IF inc = "" THEN {TRUE} ELSE BOOLEAN) :
              FwAnswerDone(u, a, inc, force, rej, readable)
    \/ \E u \in Users : \E a \in AnswersOf(u), rej \in RejChoices(fw[u].status) :
          FwAnswerNext(u, a, FALSE, rej)

SpecFW == Init /\ [][FwNext]_vars

\* the entry points with their form fields as they arrive; each user submits
\* one answer text
EntryAnswer(u) == IF u = "u1" THEN "a" ELSE "c"

EntryNext ==
    \/ \E u \in Users, raw \in RawTexts : FwStartOk(u, raw)
    \/ \E u \in Users, raw \in RawTexts : FwStartEmpty(u, raw)
    \/ \E u \in Users, inc \in RequestIds, force \in BOOLEAN :
          \E rej \in RejChoices(fw[u].status) :
              FwAnswerNoSession(u, EntryAnswer(u), inc, force, rej)
    \/ \E u \in Users, inc \in RequestIds, force \in BOOLEAN :
          \E rej \in RejChoices(fw[u].status),
             readable \in (IF inc = "" THEN {TRUE} ELSE BOOLEAN) :
              FwAnswerDone(u, EntryAnswer(u), inc, force, rej, readable)
    \/ \E u \in Users : \E rej \in RejChoices(fw[u].status) :
          FwAnswerNext(u, EntryAnswer(u), FALSE, rej)
    \/ \E raw \in RawTexts, res \in CapaEngineResults : CapaSuggest(raw, res)

SpecEntry == Init /\ [][EntryNext]_vars

\* A request that fails to parse is served as the empty message of DefaultUser
\* with no file.  The validator does not read the message, so two messages stand
\* for all where process_message breaks its contract.
ChatNext ==
    \/ \E u \in Users, m \in Messages, f \in FileTypes : ChatNoBot(u, m, f)
    \/ \E u \in Users, m \in Messages, f \in FileTypes : ChatFastPath(u, m, f)
    \/ \E u \in Users, m \in Messages, f \in FileTypes, acts \in BOOLEAN :
          \E q \in QuickRaises(m, f) : ChatEngine(u, m, f, q, acts)
    \/ \E u \in Users, m \in {<<"hello">>, <<"chemical", "spill">>}, f \in FileTypes,
          bad \in MalformedResponses :
          \E q \in QuickRaises(m, f) : ChatMalformed(u, m, f, q, bad)
    \/ \E u \in Users, m \in Messages, f \in FileTypes :
          \E q \in QuickRaises(m, f) : ChatEngineRaises(u, m, f, q)
    \/ \E u \in Users, created \in BOOLEAN : ResetChat(u, created)

Spec == Init /\ [][ChatNext]_vars

\* the requests in flight are those of one user
ConcNext ==
    \/ \E u \in {"u1"}, p \in Problems : ConcStart(u, p)
    \/ \E r \in Requests, u \in {"u1"} : \E rej \in RejChoices(fw[u].status) :
          ConcAnswerRefused(r, u, rej)
    \/ \E r \in Requests, u \in {"u1"}, inc \in {"", "i1"}, force \in BOOLEAN :
          \E rej \in RejChoices(fw[u].status) : ConcAnswer(r, u, inc, force, rej)
    \/ \E r \in Requests : ConcNotDone(r)
    \/ \E r \in Requests : ConcDone(r)
    \/ \E r \in Requests, readable \in BOOLEAN : ConcLoad(r, readable)
    \/ \E r \in Requests : ConcSave(r)

SpecConc == Init /\ [][ConcNext]_vars

EmbNext ==
    \/ \E texts \in TextLists, loadOk \in BOOLEAN, encodeOk \in BOOLEAN :
          EmbedTexts(texts, loadOk, encodeOk)
    \/ \E q \in Texts, loadOk \in BOOLEAN, encodeOk \in BOOLEAN :
          EmbedQuery(q, loadOk, encodeOk)
    \/ \E i \in 1..MaxTexts, j \in 1..MaxTexts : CosineSim(i, j)

SpecEmb == EmbInit /\ [][EmbNext]_vars

LazyNext ==
    \/ \E t \in Callers : GcEnter(t)
    \/ \E t \in Callers, created \in BOOLEAN : GcConstruct(t, created)
    \/ \E t \in Callers : GcAssign(t)
    \/ \E t \in Callers : GcReturn(t)
    \/ \E t \in Callers : GmHit(t)
    \/ \E t \in Callers : GmMiss(t)
    \/ \E t \in Callers : GmLoadFails(t)
    \/ \E t \in Callers : GmLoad(t)
    \/ \E t \in Callers : GmStore(t)

SpecLazy == LazyInit /\ [][LazyNext]_vars

\* ------------------------------------------------------------------ claims

\* C1: after a start and five answer calls of a user, the session is complete,
\* the fifth response reports complete with a chain of length five, and the
\* chain holds the five answers in the order they were submitted.
C1_FiveAnswersComplete ==
    /\ \A u \in Users :
          Len(submitted[u]) = MaxWhys =>
              /\ MgrIsComplete(fw, u)
              /\ fw[u].whys = submitted[u]
    /\ fwResp.call = MaxWhys =>
              /\ fwResp.ok /\ fwResp.complete
              /\ Len(fwResp.whys) = MaxWhys
              /\ fwResp.whys = submitted[fwResp.user]

C1_Witness ==
    /\ fwResp.call = MaxWhys /\ fwResp.user = "u1" /\ fwResp.complete
    /\ fwResp.whys = <<"a", "b", "b", "a", "b">>
    /\ MgrIsComplete(fw, "u1")

\* C2: a complete session is terminal: an answer call on it is rejected (error)
\* or ignored (the same chain is reported), its chain changes only by a new
\* start, and no chain returned or stored has more than five entries.
C2_StepTerminal ==
    \A u \in Users :
        MgrIsComplete(fw, u) =>
            /\ \/ fw'[u] = fw[u]
               \/ fwResp'.op = "start" /\ fwResp'.user = u /\ fwResp'.ok
            /\ (fwResp'.op = "answer" /\ fwResp'.user = u) =>
                   \/ ~fwResp'.ok
                   \/ fwResp'.complete /\ fwResp'.whys = fw[u].whys

C2_ChainsBounded ==
    /\ Len(fwResp.whys) <= MaxWhys
    /\ \A i \in DOMAIN store : store[i] # NoChain => Len(store[i]) <= MaxWhys

C2_CompletionTerminal == [](C2_ChainsBounded) /\ [][C2_StepTerminal]_vars

\* a sixth answer was sent to a complete session and the store holds its chain
C2_Witness ==
    /\ MgrIsComplete(fw, "u1")
    /\ fwResp.op = "answer" /\ fwResp.user = "u1" /\ fwResp.call = 0
    /\ fwResp.ok /\ Len(fwResp.whys) = MaxWhys
    /\ store["i1"] = fw["u1"].whys

\* C3: once an answer request has reported completion (by the complete flag or
\* by the fifth answer), is_complete holds for that user.
C3_ForcedCompletionSticks ==
    (fwResp.op = "answer" /\ fwResp.ok /\ fwResp.complete)
        => MgrIsComplete(fw, fwResp.user)

\* C4: while a user's dialog session is collecting, no message of that user is
\* answered by the fast path of fresh intent detection (the incident_start
\* prompt): the dialog manager handles it.
C4_DialogTakesPrecedence ==
    (chatResp.route = "chat" /\ chatResp.path = "fast")
        => dialog[chatResp.user].status # "collecting"

\* C5: whenever the incident-type prompt (type incident_start) is returned to a
\* user, that user has a collecting session whose pending slot is the incident
\* type.
C5_IncidentStartCreatesSession ==
    (chatResp.route = "chat" /\ chatResp.r.type = "incident_start")
        => /\ dialog[chatResp.user].status = "collecting"
           /\ dialog[chatResp.user].pending = "incident_type"

\* C6: a request on behalf of one user (a chat turn, a fault, a reset) leaves the
\* dialog session of every other user unchanged.
C6_StepPerUser ==
    \A u \in Users : dialog'[u] # dialog[u] => chatResp'.user = u

C6_DialogPerUser == [][C6_StepPerUser]_vars

\* C8: a message with an emergency keyword and no file, answered by the keyword
\* router, yields type emergency_guidance whatever other keywords it holds.
C8_EmergencyFirst ==
    (/\ chatResp.route = "chat" /\ chatResp.path \in {"no_bot", "raised"}
     /\ chatResp.file = ""
     /\ AnyIn(EmergencyWords, LowerMsg(chatResp.msg)))
        => chatResp.r.type = "emergency_guidance"

\* C9: every response of POST /chat carries a message that is a non-empty
\* string, and a type.
C9_MessageAndType ==
    chatResp.route = "chat" =>
        /\ "message" \in chatResp.r.keys /\ chatResp.r.message # ""
        /\ "type" \in chatResp.r.keys

\* process_message returned a dictionary with an empty message and no type, or a
\* value whose str() is empty, and the defaults were filled in
C9_Witness ==
    /\ chatResp.route = "chat" /\ chatResp.path = "malformed"
    /\ chatResp.r.message = DefaultMessage
    /\ chatResp.r.type \in {"general_response", "text_response"}

\* C10: a response of POST /chat whose type is not terminal has a non-empty list
\* of actions, and a terminal response that arrived without actions has none.
C10_ActionsUnlessTerminal ==
    chatResp.route = "chat" =>
        /\ chatResp.r.type \notin TerminalTypes =>
               "actions" \in chatResp.r.keys /\ Len(chatResp.r.actions) > 0
        /\ (chatResp.path = "malformed" /\ chatResp.r.type \in TerminalTypes) =>
               "actions" \notin chatResp.r.keys

\* C7: two requests of the same user never interleave: while one request of a
\* user stands between its steps, no other request of that user is under way.
C7_TurnsSerialized ==
    \A r1, r2 \in Requests :
        (r1 # r2 /\ pc[r1] # "idle" /\ pc[r2] # "idle") => loc[r1].user # loc[r2].user

\* a vector of the configured dimension whose components are all zero
AllZero(v) == Len(v) = Dim /\ \A i \in 1..Dim : v[i] = 0

\* C11: with the backend unavailable, embed_query returns one all-zero vector
\* of shape (384,), embed_texts returns as many all-zero rows as it was given
\* texts, shape (len(texts), 384), no row for the empty list, and cosine_sim of
\* two all-zero vectors is 0.
C11_ZeroVectorsWhenUnavailable ==
    /\ (~sbert /\ embResp.op \in {"embed_query", "embed_texts"}) =>
           /\ ~embResp.raised
           /\ Len(embResp.rows) = Len(embResp.texts)
           /\ \A k \in 1..Len(embResp.rows) : AllZero(embResp.rows[k])
           /\ embResp.shape = IF embResp.op = "embed_query" THEN <<384>>
                              ELSE <<Len(embResp.texts), 384>>
    /\ (/\ embResp.op = "cosine_sim"
        /\ AllZero(embResp.rows[embResp.pair[1]])
        /\ AllZero(embResp.rows[embResp.pair[2]])) => embResp.sim = 0
    /\ (~sbert /\ embResp.op = "cosine_sim") =>
           /\ AllZero(embResp.rows[embResp.pair[1]])
           /\ AllZero(embResp.rows[embResp.pair[2]])

\* unavailable backend: two texts were embedded and the similarity of the two
\* rows was taken
C11_Witness ==
    /\ ~sbert /\ embResp.op = "cosine_sim"
    /\ Len(embResp.texts) = 2 /\ embResp.pair = <<1, 2>>
    /\ embResp.shape = <<2, 384>> /\ embResp.sim = 0

\* C12: with the backend available, a call of embed_query or embed_texts in
\* which get_model or model.encode fails does not raise: it returns the
\* all-zero result of its shape, (384,) or (len(texts), 384).
C12_FailuresDegrade ==
    (/\ sbert /\ embResp.op \in {"embed_query", "embed_texts"}
     /\ embResp.failed \in {"load", "encode"}) =>
        /\ ~embResp.raised
        /\ Len(embResp.rows) = Len(embResp.texts)
        /\ \A k \in 1..Len(embResp.rows) : AllZero(embResp.rows[k])
        /\ embResp.shape = IF embResp.op = "embed_query" THEN <<384>>
                           ELSE <<Len(embResp.texts), 384>>

\* the model was loaded by an earlier call and model.encode failed on two texts
C12_Witness ==
    /\ sbert /\ model = "Model" /\ embResp.op = "embed_texts"
    /\ embResp.failed = "encode" /\ Len(embResp.texts) = 2
    /\ ~embResp.raised /\ embResp.shape = <<2, 384>>

\* C13: a failed lazy initialization is not retried: in one process the
\* creation of the chatbot instance and the construction of the embedding model
\* are each attempted at most once.
C13_InitAttemptedOnce == attempts <= 1 /\ loads <= 1

\* C14: under concurrent first calls of a lazy getter at most one instance of
\* the singleton is ever constructed, and all callers that received an instance
\* received the same one.
C14_SingleWinningInit ==
    /\ made.chatbot <= 1 /\ made.model <= 1
    /\ \A t1, t2 \in Callers :
          /\ (got[t1].chatbot \notin {"-", "None"} /\ got[t2].chatbot \notin {"-", "None"})
                => got[t1].chatbot = got[t2].chatbot
          /\ (got[t1].model \notin {"-", "raise"} /\ got[t2].model \notin {"-", "raise"})
                => got[t1].model = got[t2].model

\* C15: an answer request of a user without a session gets the error response
\* (ok false, status 400), and the step changes no session and no record of the
\* incident store, whatever incident_id and complete flag the request carries.
C15_StepRefused ==
    \A u \in Users :
        (fw[u].status = "none" /\ fwResp'.op = "answer" /\ fwResp'.user = u) =>
            /\ ~fwResp'.ok /\ fwResp'.code = 400
            /\ ~fwResp'.complete /\ fwResp'.whys = <<>>
            /\ fw' = fw
            /\ store' = store

C15_AnswerWithoutSession == [][C15_StepRefused]_vars

\* a user without a session answered with an incident id and complete=true,
\* while the other user's session is under way
C15_Witness ==
    /\ fwResp.op = "answer" /\ fwResp.user = "u1" /\ ~fwResp.ok
    /\ fwResp.ignored = <<"i1", TRUE>>
    /\ fw["u1"].status = "none"
    /\ fw[DefaultUser].status = "active" /\ Len(fw[DefaultUser].whys) = 2
    /\ store["i1"] = NoChain

\* a required form field that is empty or all whitespace
Blank(raw) == raw \in {"", "  "}

\* C16: a start with a blank problem and a capa/suggest with a blank description
\* are answered with ok false and status 400; the blank start changes no
\* session, no session ever holds a blank problem, and the blank capa/suggest
\* does not reach suggest_corrective_actions and returns no suggestions.
C16_BlankAnswered ==
    /\ (fwResp.op = "start" /\ Blank(fwResp.raw)) => (~fwResp.ok /\ fwResp.code = 400)
    /\ \A u \in Users : fw[u].status # "none" => ~Blank(fw[u].problem)
    /\ Blank(capaResp.raw) =>
           /\ ~capaResp.ok /\ capaResp.code = 400
           /\ ~capaResp.scored
           /\ "suggestions" \notin capaResp.keys

C16_StepBlankStart ==
    (fwResp'.op = "start" /\ Blank(fwResp'.raw)) => fw' = fw

C16_BlankInputRejected == [](C16_BlankAnswered) /\ [][C16_StepBlankStart]_vars

\* a whitespace-only problem was sent over a session under way, and a
\* whitespace-only description was sent to capa/suggest
C16_Witness ==
    /\ fwResp.op = "start" /\ fwResp.user = "u1" /\ fwResp.raw = "  " /\ ~fwResp.ok
    /\ fw["u1"].status = "active" /\ Len(fw["u1"].whys) = 2
    /\ capaResp.raw = "  " /\ ~capaResp.ok /\ capaResp.code = 400

\* C17: a start with a non-blank problem leaves its user with a fresh session
\* (the problem given, no whys, active), whatever session the user had, and
\* leaves every other user's session as it was.
C17_StepStart ==
    (fwResp'.op = "start" /\ fwResp'.ok) =>
        /\ fw'[fwResp'.user].problem = "forklift"
        /\ fw'[fwResp'.user].whys = <<>>
        /\ fw'[fwResp'.user].status = "active"
        /\ \A v \in Users \ {fwResp'.user} : fw'[v] = fw[v]

C17_StartReplacesSession == [][C17_StepStart]_vars

\* u1 started anew after a chain of five had been attached to the incident,
\* and the other user's session still holds its answers
C17_Witness ==
    /\ fwResp.op = "start" /\ fwResp.user = "u1" /\ fwResp.ok
    /\ fw["u1"].status = "active" /\ fw["u1"].whys = <<>>
    /\ store["i1"] # NoChain /\ Len(store["i1"]) = MaxWhys /\ store["i1"][1] = "a"
    /\ Len(fw[DefaultUser].whys) = 3

\* C18: the set of incident ids in the store never changes, and a step changes
\* the store only in an answer request of a user whose session is complete, and
\* then only the chain of the one record the request names.
C18_StepStore ==
    /\ DOMAIN store' = DOMAIN store
    /\ store' # store =>
           /\ fwResp'.op = "answer" /\ fwResp'.ok /\ fwResp'.complete
           /\ MgrIsComplete(fw', fwResp'.user)
           /\ \E i \in DOMAIN store :
                 /\ store'[i] = fwResp'.whys
                 /\ \A j \in DOMAIN store \ {i} : store'[j] = store[j]

C18_StoreOnlyEnriched == [][C18_StepStore]_vars

====
